---------------------------- MODULE Spec2Model ----------------------------
(* Measurement loop of cloud-bandwidth (cbandwidth.go): iperfRun and        *)
(* netperfRun sweep the configured perf servers, run the probe through      *)
(* runCmd, look for the failure marker, convert the token with              *)
(* convertKbitsToBits and hand a payload to sendGraphite or sendInflux,     *)
(* then sleep for the test interval and start over.                         *)
(*                                                                          *)
(* Texts (command output, markers) are sequences of one-character strings,  *)
(* so strings.Contains, strings.TrimSpace and the integer parse are         *)
(* computed on the characters.                                              *)
EXTENDS Integers, Sequences, FiniteSets, TLC

(***************************************************************************)
(* Bounds                                                                  *)
(***************************************************************************)
\* largest number of entries of config.PerfServers
MaxServers == 2

(***************************************************************************)
(* Texts                                                                   *)
(***************************************************************************)
T_error == <<"e", "r", "r", "o", "r">>
T_sure == <<"s", "u", "r", "e">>

Whitespace == {" ", "\n", "\t", "\r"}
Digits == {"0", "1", "2", "3", "4", "5", "6", "7", "8", "9"}

DigitVal(c) ==
    CASE c = "0" -> 0 [] c = "1" -> 1 [] c = "2" -> 2 [] c = "3" -> 3
      [] c = "4" -> 4 [] c = "5" -> 5 [] c = "6" -> 6 [] c = "7" -> 7
      [] c = "8" -> 8 [] c = "9" -> 9

\* strings.Contains(s, sub)
Contains(s, sub) ==
    \E i \in 0..(Len(s) - Len(sub)) : SubSeq(s, i + 1, i + Len(sub)) = sub

RECURSIVE TrimLeft(_)
TrimLeft(s) ==
    IF s # <<>> /\ Head(s) \in Whitespace THEN TrimLeft(Tail(s)) ELSE s

RECURSIVE TrimRight(_)
TrimRight(s) ==
    IF s # <<>> /\ s[Len(s)] \in Whitespace
    THEN TrimRight(SubSeq(s, 1, Len(s) - 1))
    ELSE s

\* strings.TrimSpace(s)
TrimSpace(s) == TrimRight(TrimLeft(s))

RECURSIVE DecimalValue(_)
DecimalValue(ds) ==
    IF ds = <<>> THEN 0
    ELSE DecimalValue(SubSeq(ds, 1, Len(ds) - 1)) * 10 + DigitVal(ds[Len(ds)])

\* the digits of a token after its optional sign
Unsigned(s) == IF s # <<>> /\ Head(s) \in {"+", "-"} THEN Tail(s) ELSE s

\* the token is a decimal integer: optional sign, then one digit or more
IsInteger(s) ==
    /\ Unsigned(s) # <<>>
    /\ \A i \in 1..Len(Unsigned(s)) : Unsigned(s)[i] \in Digits

ParseInteger(s) ==
    IF s # <<>> /\ Head(s) = "-"
    THEN 0 - DecimalValue(Unsigned(s))
    ELSE DecimalValue(Unsigned(s))

\* An int of the program is kept as its sign and its decimal digits without
\* leading zeros, so that products beyond 2^31 are exact. int is 64 bits wide
\* on the 64-bit builds: a value of at most 18 digits is inside its range.
IntZero == [neg |-> FALSE, digits |-> << "0" >>]

RECURSIVE StripZeros(_)
StripZeros(ds) ==
    IF Len(ds) > 1 /\ Head(ds) = "0" THEN StripZeros(Tail(ds)) ELSE ds

\* the int a decimal token denotes
IntOf(s) ==
    LET ds == StripZeros(Unsigned(s)) IN
    IF ds = << "0" >> THEN IntZero
    ELSE [neg |-> (Head(s) = "-"), digits |-> ds]

\* n * 1000
TimesThousand(n) ==
    IF n = IntZero THEN IntZero
    ELSE [neg |-> n.neg, digits |-> n.digits \o << "0", "0", "0" >>]

\* convertKbitsToBits(kbits): the token parsed as an integer, times 1000;
\* a non-numeric token gives an error and the zero value
convertKbitsToBits(kbits) ==
    IF IsInteger(kbits)
    THEN [bps |-> TimesThousand(IntOf(kbits)), err |-> FALSE]
    ELSE [bps |-> IntZero, err |-> TRUE]

\* variant: the sign is lost, as by a conversion to an unsigned type
FormatIntUnsigned(n) == n.digits

\* %d of an int
FormatInt(n) == IF n.neg THEN << "-" >> \o n.digits ELSE n.digits

\* time.ParseDuration(testInterval + "s"), in seconds; the error is dropped
\* and the zero duration is slept
ParseDuration(testInterval) ==
    IF IsInteger(testInterval) THEN ParseInteger(testInterval) ELSE 0

\* strings.Split(s, sep) for a separator of one character
RECURSIVE Split(_, _)
Split(s, sep) ==
    IF \A i \in 1..Len(s) : s[i] # sep
    THEN << s >>
    ELSE LET i == CHOOSE k \in 1..Len(s) :
                     s[k] = sep /\ \A j \in 1..(k - 1) : s[j] # sep
         IN << SubSeq(s, 1, i - 1) >> \o Split(SubSeq(s, i + 1, Len(s)), sep)

\* splitPerfPair(pair): the pair split on ":"
splitPerfPair(pair) == Split(pair, ":")

\* mapPerfDest(tunnelDestPair): a map of one entry, address to name, the
\* name empty when the pair has one token
mapPerfDest(tunnelDestPair) ==
    LET hostAddressPair == splitPerfPair(tunnelDestPair) IN
    IF Len(hostAddressPair) > 1
    THEN << << hostAddressPair[1], hostAddressPair[2] >> >>
    ELSE IF Len(hostAddressPair) > 0
         THEN << << hostAddressPair[1], <<>> >> >>
         ELSE <<>>

\* runApp: the maps of --perf-servers are appended to those of the file
MergePerfServers(fileServers, perfServers) ==
    IF perfServers # <<>>
    THEN LET tunnelDestList == Split(perfServers, ",") IN
         fileServers \o [i \in 1..Len(tunnelDestList) |->
                            mapPerfDest(tunnelDestList[i])]
    ELSE fileServers

(***************************************************************************)
(* Inputs                                                                  *)
(***************************************************************************)
\* what the shell pipeline can print, before runCmd trims it
RawOutputs ==
    { <<"9", "4", "0", "\n">>,
      <<"2", "1", "4", "7", "4", "8", "3", "6", "4", "7", "\n">>,
      <<"-", "3", "\n">>,
      <<>>,
      <<"a", "b", "c", "\n">>,
      <<"e", "r", "r", "o", "r", "\n">>,
      <<"1", "2", " ", "e", "r", "r", "o", "r">>,
      <<"s", "u", "r", "e", "\n">>,
      <<"5", " ", "s", "u", "r", "e">> }

\* a servers map as it is written in the configuration: its entries
\* <<address, name>> in the order of the file, addresses and names being
\* texts
ServerMaps ==
    { << << <<"a">>, <<>> >> >>,
      << << <<"a">>, <<>> >>, << <<"b">>, <<"w">> >> >> }

PerfServerLists ==
    UNION { [1..n -> ServerMaps] : n \in 0..MaxServers }

InfluxURLs == {"http://sink/write", ":bad", ""}
TestIntervals == { <<"3", "0", "0">>, <<"x">> }
StatusCodes == {200, 204, 500}
\* what time.Now().Unix() can return
Times == {1700000000, 1700000001}
StatusOK == 200

\* the resolved configuration and flags the loop reads; without
\* --tsdbtype=influx no influx URL is needed and none is given
Configurations ==
    { c \in [ PerfServers : PerfServerLists,
              perfServers : { <<>> },
              netperf : BOOLEAN,
              tsdbType : {"influx", ""},
              InfluxURL : InfluxURLs,
              testInterval : TestIntervals,
              testLength : {"5"},
              perfServerPort : {"5201", "12865"},
              MeasurementName : {"bandwidth"},
              Hostname : {"host1"},
              downloadPrefix : {"bandwidth.download"},
              uploadPrefix : {"bandwidth.upload"} ] :
        /\ c.tsdbType # "influx" => c.InfluxURL = ""
        /\ c.perfServerPort = (IF c.netperf THEN "12865" ELSE "5201") }

\* values of --perf-servers
PerfServersFlags ==
    { <<"a">>,
      <<"a", ":">>,
      <<"b", ":", "w">>,
      <<"a", ",", "b", ":", "w">>,
      <<"a", ":", "b", ":", "c">>,
      <<":", "w">> }

\* the configurations of a run without iperf-servers in the file, the
\* endpoints coming from --perf-servers
FlagConfigurations ==
    { [c EXCEPT !.PerfServers = MergePerfServers(c.PerfServers, f),
                !.perfServers = f] :
        c \in { x \in Configurations : x.PerfServers = <<>> },
        f \in PerfServersFlags }

(***************************************************************************)
(* State                                                                   *)
(***************************************************************************)
VARIABLES
    config,        \* configuration and cliFlags, as resolved by runApp
    pc,            \* where the loop is
    vi,            \* index of v in config.PerfServers
    inner,         \* entries of v that range has not delivered yet
    endpoint,      \* [address, name] of the iteration
    dir,           \* "download" or "upload"
    cmd,           \* command line handed to runCmd
    out,           \* output returned by runCmd
    cmdErr,        \* runCmd returned a non-nil error
    result,        \* what convertKbitsToBits returned
    msg,           \* payload handed to the sink
    probes,        \* probes invoked in this sweep, in order
    sendCount,     \* sink calls made since the last probe
    dialCount,     \* dials and requests issued since the last probe
    logs,          \* error log lines written since the last probe
    openConns,     \* graphite connections that are open
    connWrites,    \* payloads written on the open connection
    resp,          \* HTTP response in sendInflux
    ret,           \* what the last sendInflux returned
    slept          \* seconds slept before the sweep began; -1 once it runs

vars == << config, pc, vi, inner, endpoint, dir, cmd, out, cmdErr, result, msg,
           probes, sendCount, dialCount, logs, openConns, connWrites, resp,
           ret, slept >>

NoEndpoint == [address |-> <<>>, name |-> <<>>]
NoCmd ==
    [tool |-> "", reverse |-> FALSE, address |-> <<>>, length |-> "",
     port |-> ""]
NoResult == [bps |-> IntZero, err |-> FALSE]
NoMsg ==
    [sink |-> "", layout |-> "", measurement |-> "", prefix |-> "",
     label |-> <<>>, source |-> "", field |-> "", value |-> <<>>, time |-> 0]
NoResp == [status |-> 0, bodyOK |-> FALSE, read |-> FALSE, closed |-> FALSE]
NoReturn == [kind |-> "none", code |-> 0]

\* the locals of the loop as it is entered
LoopStart ==
    /\ pc = "sweep"
    /\ vi = 0
    /\ inner = <<>>
    /\ endpoint = NoEndpoint
    /\ dir = "download"
    /\ cmd = NoCmd
    /\ out = <<>>
    /\ cmdErr = FALSE
    /\ result = NoResult
    /\ msg = NoMsg
    /\ probes = <<>>
    /\ sendCount = 0
    /\ dialCount = 0
    /\ logs = {}
    /\ openConns = 0
    /\ connWrites = 0
    /\ resp = NoResp
    /\ ret = NoReturn
    /\ slept = -1

Init ==
    /\ config \in Configurations
    /\ LoopStart

\* a run started with --perf-servers and no iperf-servers in the file
FlagInit ==
    /\ config \in FlagConfigurations
    /\ LoopStart


(***************************************************************************)
(* Decisions of the loop                                                   *)
(***************************************************************************)
Range(s) == { s[i] : i \in 1..Len(s) }

\* for endpointAddress, endpointName := range v: a Go map is ranged over in
\* an order the language leaves unspecified, so every order can come out
RangeOrders(v) ==
    { s \in [1..Len(v) -> Range(v)] : Range(s) = Range(v) }

\* variant: an empty name is left empty
EndpointOfAsGiven(entry) == [address |-> entry[1], name |-> entry[2]]

\* if endpointName == "" { endpointName = endpointAddress }
EndpointOf(entry) ==
    [address |-> entry[1],
     name |-> IF entry[2] = <<>> THEN entry[1] ELSE entry[2]]

\* the word looked for in the output: "error" in iperfRun, "sure" in netperfRun
FailureMarker(netperf) == IF netperf THEN T_sure ELSE T_error

\* variant: the marker is looked for at the start of the output only
ProbeFailedPrefix(output, netperf) ==
    /\ Len(output) >= Len(FailureMarker(netperf))
    /\ SubSeq(output, 1, Len(FailureMarker(netperf))) = FailureMarker(netperf)

\* strings.Contains(iperfDownResults, "error") and its two siblings
ProbeFailed(output, netperf) == Contains(output, FailureMarker(netperf))

\* variant: the comparison is inverted
SinkOfInverted(tsdbType) == IF tsdbType = "influx" THEN "graphite" ELSE "influx"

\* cliFlags.tsdbType != "influx" selects sendGraphite, else sendInflux
SinkOf(tsdbType) == IF tsdbType # "influx" THEN "graphite" ELSE "influx"

\* variant: the upload line is built with the download prefix
PrefixOfDownload(cfg, d) == cfg.downloadPrefix

\* cliFlags.downloadPrefix in the download block, cliFlags.uploadPrefix in
\* the upload block
PrefixOf(cfg, d) ==
    IF d = "download" THEN cfg.downloadPrefix ELSE cfg.uploadPrefix

\* variant: netperfRun uses the field of iperfRun
FieldOfUnified(netperf) == "iperfResultsBps"

\* the field of the influx line: iperfResultsBps in iperfRun,
\* iperfDownloadResultsBps in netperfRun
FieldOf(netperf) ==
    IF netperf THEN "iperfDownloadResultsBps" ELSE "iperfResultsBps"

\* the format of the graphite line and of the influx line; in the code the
\* name of the field is written in the format of the influx line
GraphiteLayout == "%s.%s %d %d\n"
InfluxLayout == "%s,testType=%s,iperfDestination=%s,iperfSource=%s %s=%d"

\* msg := fmt.Sprintf(...) of the branch taken: the graphite line carries
\* prefix, name, value and the time read before it; the influx line carries
\* measurement name, prefix, name, hostname and value, and no time
BuildMsg(cfg, ep, d, bps, now) ==
    IF SinkOf(cfg.tsdbType) = "graphite"
    THEN [sink |-> "graphite",
          layout |-> GraphiteLayout,
          measurement |-> "",
          prefix |-> PrefixOf(cfg, d),
          label |-> ep.name,
          source |-> "",
          field |-> "",
          value |-> FormatInt(bps),
          time |-> now]
    ELSE [sink |-> "influx",
          layout |-> InfluxLayout,
          measurement |-> cfg.MeasurementName,
          prefix |-> PrefixOf(cfg, d),
          label |-> ep.name,
          source |-> cfg.Hostname,
          field |-> FieldOf(cfg.netperf),
          value |-> FormatInt(bps),
          time |-> 0]

\* first statement of the sink function that is called
SendEntry(tsdbType) ==
    IF SinkOf(tsdbType) = "graphite" THEN "gDial" ELSE "iNewRequest"

\* the command of the block: iperf3 ... -c address in the download block,
\* the same with -R in the upload block; netperf ... -H address, which has
\* no -R
Command(cfg, ep, d) ==
    [tool |-> IF cfg.netperf THEN "netperf" ELSE "iperf",
     reverse |-> (~cfg.netperf /\ d = "upload"),
     address |-> ep.address,
     length |-> cfg.testLength,
     port |-> cfg.perfServerPort]

\* variant: the defaulted name is stored in the entry of the map
PerfServersAfterDefaultStored(servers, i, ep) ==
    [servers EXCEPT ![i] =
        [j \in 1..Len(servers[i]) |->
            IF servers[i][j][1] = ep.address
            THEN << ep.address, ep.name >>
            ELSE servers[i][j]]]

\* config.PerfServers after endpointName = endpointAddress: the assignment
\* is to the variable of the range, the entry of the map stays as it was
PerfServersAfterDefault(servers, i, ep) == servers

\* variant: netperfRun gets an upload block as well
AfterDirectionBoth(netperf, d) ==
    IF d = "download" THEN "upload" ELSE "inner"

\* what follows the block of one direction: iperfRun goes on to the upload
\* probe of the same endpoint, netperfRun has no upload block
AfterDirection(netperf, d) ==
    IF ~netperf /\ d = "download" THEN "upload" ELSE "inner"

\* variant: a failed dial is tried again
AfterDialRetry(ok) == IF ok THEN "gWrite" ELSE "gDial"

\* where sendGraphite goes after net.Dial
AfterDial(ok) == IF ok THEN "gWrite" ELSE "next"

\* variant: the connection is left open
CloseConnLeak(n) == n

\* defer conn.Close()
CloseConn(n) == n - 1

\* http.NewRequest fails on a URL that does not parse
NewRequestOK(url) == url # ":bad"

\* client.Do cannot succeed without a scheme and host
CanRespond(url) == url # ""

\* resp.StatusCode != http.StatusOK
StatusRejected(code) == code # StatusOK

\* variant: after the sleep the last result is handled once more
AfterSleepResend == "check"

\* control after time.Sleep: the enclosing for has no condition
AfterSleep == "sweep"

\* variant: the range stops one entry early
SweepDoneEarly(cfg, i) == i >= Len(cfg.PerfServers)

\* the range over config.PerfServers is exhausted
SweepDone(cfg, i) == i > Len(cfg.PerfServers)

(***************************************************************************)
(* The loop of iperfRun / netperfRun                                       *)
(***************************************************************************)
sinkVars == << openConns, connWrites, resp, ret >>
probeVars == << cmd, out, cmdErr, result, msg, sendCount, dialCount, logs >>

\* for { : time.Sleep has returned and a sweep begins with the first entry
\* of config.PerfServers
BeginSweep ==
    /\ pc = "sweep"
    /\ pc' = "outer"
    /\ vi' = 1
    /\ probes' = <<>>
    /\ slept' = -1
    /\ UNCHANGED << config, inner, endpoint, dir >>
    /\ UNCHANGED probeVars
    /\ UNCHANGED sinkVars

\* for _, v := range config.PerfServers
RangeServers ==
    /\ pc = "outer"
    /\ IF SweepDone(config, vi)
       THEN /\ pc' = "sleep"
            /\ inner' = inner
       ELSE /\ pc' = "inner"
            /\ inner' \in RangeOrders(config.PerfServers[vi])
    /\ UNCHANGED << config, vi, endpoint, dir, probes, slept >>
    /\ UNCHANGED probeVars
    /\ UNCHANGED sinkVars

\* for endpointAddress, endpointName := range v
RangeEntries ==
    /\ pc = "inner"
    /\ IF inner = <<>>
       THEN /\ pc' = "outer"
            /\ vi' = vi + 1
            /\ UNCHANGED << inner, endpoint, dir >>
       ELSE /\ pc' = "probe"
            /\ endpoint' = EndpointOf(Head(inner))
            /\ inner' = Tail(inner)
            /\ dir' = "download"
            /\ vi' = vi
    /\ config' = IF inner = <<>> THEN config
                 ELSE [config EXCEPT !.PerfServers =
                          PerfServersAfterDefault(config.PerfServers, vi,
                                                  EndpointOf(Head(inner)))]
    /\ UNCHANGED << probes, slept >>
    /\ UNCHANGED probeVars
    /\ UNCHANGED sinkVars

\* runCmd(...): the shell pipeline runs and its trimmed combined output
\* comes back with the error of exec
runCmd ==
    /\ pc = "probe"
    /\ \E raw \in RawOutputs, e \in BOOLEAN :
          /\ out' = TrimSpace(raw)
          /\ cmdErr' = e
    /\ cmd' = Command(config, endpoint, dir)
    /\ probes' = Append(probes, << endpoint.address, dir >>)
    /\ pc' = "check"
    /\ UNCHANGED << config, vi, inner, endpoint, dir, slept, result, msg,
                    sendCount, dialCount, logs >>
    /\ UNCHANGED sinkVars

\* the if/else on the failure marker: log and skip, or convert, build the
\* payload and call the sink
handleResult ==
    /\ pc = "check"
    /\ IF ProbeFailed(out, config.netperf)
       THEN /\ logs' = logs \cup {"probe"}
            /\ pc' = "next"
            /\ UNCHANGED << result, msg, sendCount >>
       ELSE LET r == convertKbitsToBits(out) IN
            /\ result' = r
            /\ logs' = IF r.err THEN logs \cup {"format"} ELSE logs
            /\ \E now \in Times :
                  msg' = BuildMsg(config, endpoint, dir, r.bps, now)
            /\ sendCount' = sendCount + 1
            /\ pc' = SendEntry(config.tsdbType)
    /\ UNCHANGED << config, vi, inner, endpoint, dir, cmd, out, cmdErr, probes,
                    dialCount, slept >>
    /\ UNCHANGED sinkVars

\* the end of the block of one direction: its locals go out of scope
nextDirection ==
    /\ pc = "next"
    /\ IF AfterDirection(config.netperf, dir) = "upload"
       THEN /\ dir' = "upload"
            /\ pc' = "probe"
       ELSE /\ dir' = dir
            /\ pc' = "inner"
    /\ cmd' = NoCmd
    /\ out' = <<>>
    /\ cmdErr' = FALSE
    /\ result' = NoResult
    /\ msg' = NoMsg
    /\ sendCount' = 0
    /\ dialCount' = 0
    /\ logs' = {}
    /\ resp' = NoResp
    /\ ret' = NoReturn
    /\ connWrites' = 0
    /\ UNCHANGED << config, vi, inner, endpoint, probes, slept, openConns >>

\* t, _ := time.ParseDuration(testInterval + "s"); time.Sleep(t)
sleep ==
    /\ pc = "sleep"
    /\ slept' = ParseDuration(config.testInterval)
    /\ pc' = AfterSleep
    /\ UNCHANGED << config, vi, inner, endpoint, dir, probes >>
    /\ UNCHANGED probeVars
    /\ UNCHANGED sinkVars

(***************************************************************************)
(* sendGraphite                                                            *)
(***************************************************************************)
loopVars == << config, vi, inner, endpoint, dir, probes, slept >>

\* conn, err := net.Dial(connType, socket)
sendGraphiteDial ==
    /\ pc = "gDial"
    /\ dialCount' = dialCount + 1
    /\ \E ok \in BOOLEAN :
          /\ pc' = AfterDial(ok)
          /\ IF ok
             THEN /\ openConns' = openConns + 1
                  /\ connWrites' = 0
                  /\ logs' = logs
             ELSE /\ logs' = logs \cup {"dial"}
                  /\ UNCHANGED << openConns, connWrites >>
    /\ UNCHANGED << cmd, out, cmdErr, result, msg, sendCount, resp, ret >>
    /\ UNCHANGED loopVars

\* _, err = fmt.Fprintf(conn, msg)
sendGraphiteWrite ==
    /\ pc = "gWrite"
    /\ connWrites' = connWrites + 1
    /\ \E ok \in BOOLEAN :
          logs' = IF ok THEN logs ELSE logs \cup {"write"}
    /\ pc' = "gClose"
    /\ UNCHANGED << cmd, out, cmdErr, result, msg, sendCount, dialCount,
                    openConns, resp, ret >>
    /\ UNCHANGED loopVars

\* the deferred conn.Close() runs as sendGraphite returns
sendGraphiteClose ==
    /\ pc = "gClose"
    /\ openConns' = CloseConn(openConns)
    /\ pc' = "next"
    /\ UNCHANGED << connWrites, resp, ret >>
    /\ UNCHANGED probeVars
    /\ UNCHANGED loopVars

(***************************************************************************)
(* sendInflux                                                              *)
(***************************************************************************)
NilError == [kind |-> "nil", code |-> 0]
NewRequestError == [kind |-> "new request", code |-> 0]
ReadError == [kind |-> "read body", code |-> 0]
\* fmt.Errorf("unexpected status code: %d", resp.StatusCode)
StatusError(code) == [kind |-> "unexpected status code: ", code |-> code]

\* req, err := http.NewRequest("POST", influxURL, ...)
sendInfluxNewRequest ==
    /\ pc = "iNewRequest"
    /\ IF NewRequestOK(config.InfluxURL)
       THEN /\ pc' = "iDo"
            /\ UNCHANGED << logs, ret >>
       ELSE /\ logs' = logs \cup {"uri"}
            /\ ret' = NewRequestError
            /\ pc' = "next"
    /\ UNCHANGED << cmd, out, cmdErr, result, msg, sendCount, dialCount,
                    openConns, connWrites, resp >>
    /\ UNCHANGED loopVars

\* resp, err := client.Do(req), the log of its error, and
\* defer resp.Body.Close(), which dereferences resp: with a nil resp the
\* goroutine panics and the process ends. When the redirect policy stops the
\* request, Do returns the error together with a response whose body is
\* already closed.
sendInfluxDo ==
    /\ pc = "iDo"
    /\ dialCount' = dialCount + 1
    /\ \/ /\ logs' = logs \cup {"connect"}
          /\ pc' = "panicked"
          /\ resp' = resp
       \/ /\ CanRespond(config.InfluxURL)
          /\ logs' = logs \cup {"connect"}
          /\ resp' = [status |-> 302, bodyOK |-> FALSE, read |-> FALSE,
                      closed |-> TRUE]
          /\ pc' = "iReadAll"
       \/ /\ CanRespond(config.InfluxURL)
          /\ \E code \in StatusCodes, ok \in BOOLEAN :
                resp' = [status |-> code, bodyOK |-> ok, read |-> FALSE,
                         closed |-> FALSE]
          /\ logs' = logs
          /\ pc' = "iReadAll"
    /\ UNCHANGED << cmd, out, cmdErr, result, msg, sendCount, openConns,
                    connWrites, ret >>
    /\ UNCHANGED loopVars

\* body, err := io.ReadAll(resp.Body): err is the named result of the
\* function and keeps the error of the read
sendInfluxReadAll ==
    /\ pc = "iReadAll"
    /\ resp' = [resp EXCEPT !.read = TRUE]
    /\ ret' = IF resp.bodyOK THEN NilError ELSE ReadError
    /\ pc' = "iStatus"
    /\ UNCHANGED << openConns, connWrites >>
    /\ UNCHANGED probeVars
    /\ UNCHANGED loopVars

\* if resp.StatusCode != http.StatusOK { return fmt.Errorf(...) }; return
sendInfluxStatus ==
    /\ pc = "iStatus"
    /\ ret' = IF StatusRejected(resp.status)
              THEN StatusError(resp.status)
              ELSE ret
    /\ pc' = "iClose"
    /\ UNCHANGED << openConns, connWrites, resp >>
    /\ UNCHANGED probeVars
    /\ UNCHANGED loopVars

\* the deferred resp.Body.Close() runs as sendInflux returns
sendInfluxClose ==
    /\ pc = "iClose"
    /\ resp' = [resp EXCEPT !.closed = TRUE]
    /\ pc' = "next"
    /\ UNCHANGED << openConns, connWrites, ret >>
    /\ UNCHANGED probeVars
    /\ UNCHANGED loopVars

(***************************************************************************)
(* Specification                                                           *)
(***************************************************************************)
Next ==
    \/ BeginSweep
    \/ RangeServers
    \/ RangeEntries
    \/ runCmd
    \/ handleResult
    \/ nextDirection
    \/ sleep
    \/ sendGraphiteDial
    \/ sendGraphiteWrite
    \/ sendGraphiteClose
    \/ sendInfluxNewRequest
    \/ sendInfluxDo
    \/ sendInfluxReadAll
    \/ sendInfluxStatus
    \/ sendInfluxClose

Spec == Init /\ [][Next]_vars

\* the loop is one sequential flow of control: whenever a step can be taken
\* the process takes it
FairSpec == Spec /\ WF_vars(Next)

FlagSpec == FlagInit /\ [][Next]_vars

(***************************************************************************)
(* Vocabulary of the properties                                            *)
(***************************************************************************)
SinkLocations == {"gDial", "gWrite", "gClose", "iNewRequest", "iDo",
                  "iReadAll", "iStatus", "iClose"}

\* directions probed for one endpoint, in the order of the two blocks
Directions(netperf) ==
    IF netperf THEN << "download" >> ELSE << "download", "upload" >>

\* probes of the entries of one servers map, in the order they are written
RECURSIVE MapProbes(_, _)
MapProbes(v, netperf) ==
    IF v = <<>> THEN <<>>
    ELSE [i \in 1..Len(Directions(netperf)) |->
             << Head(v)[1], Directions(netperf)[i] >>]
         \o MapProbes(Tail(v), netperf)

\* probes of a whole sweep in registry order
RECURSIVE ListProbes(_, _)
ListProbes(servers, netperf) ==
    IF servers = <<>> THEN <<>>
    ELSE MapProbes(Head(servers), netperf) \o ListProbes(Tail(servers), netperf)

RegistryOrder == ListProbes(config.PerfServers, config.netperf)

IsPrefix(s, t) == Len(s) <= Len(t) /\ SubSeq(t, 1, Len(s)) = s

\* every endpoint of the list has been probed in every direction
AllProbed ==
    /\ Len(probes) = Len(RegistryOrder)
    /\ Range(probes) = Range(RegistryOrder)

\* the output in hand holds the marker of the probe kind
MarkerSeen ==
    IF config.netperf THEN Contains(out, T_sure) ELSE Contains(out, T_error)

\* the probe in hand ended in one of the probe-side failures
ProbeSideFailure ==
    /\ pc = "check"
    /\ (cmdErr \/ MarkerSeen \/ ~IsInteger(out))

(***************************************************************************)
(* Properties                                                              *)
(***************************************************************************)

\* C1: once a probe has ended in a probe-side failure (execution error,
\* failure marker or non-numeric token), the sweep still goes on until every
\* endpoint of the list has been probed in every direction.
C1_ProbeFailureIsolated ==
    ProbeSideFailure ~> (pc = "sleep" /\ AllProbed)

\* C2: no sink failure ends the process: the loop never stops in a panic
\* raised inside sendGraphite or sendInflux.
C2_SinkFailureIsolated == pc # "panicked"

\* C3: when convertKbitsToBits returned an error for the probe in hand, no
\* sink is called for it and no payload is built in its place.
C3_FormatErrorSkipsSend ==
    result.err => (sendCount = 0 /\ msg = NoMsg)

\* C4: when the output in hand holds the failure marker of the probe kind,
\* no sink is called for that probe, whatever else the output holds, and once
\* the result is handled the error is in the log.
C4_MarkerSkipsSend ==
    MarkerSeen =>
        /\ sendCount = 0
        /\ pc \in {"check", "next"}
        /\ (pc = "next" => "probe" \in logs)

C4_Witness ==
    /\ pc = "next"
    /\ MarkerSeen
    /\ \E i \in 1..Len(out) : out[i] \in Digits

\* C5: when runCmd returned an error for the probe in hand, no sink is called
\* for it.
C5_ExecErrorSkipsSend == cmdErr => sendCount = 0

\* C6: the probes of a sweep are invoked in registry order, download before
\* upload for each endpoint: at every moment the probes made so far are the
\* first ones of the registry order.
C6_RegistryOrder == IsPrefix(probes, RegistryOrder)

C7_FailedSend ==
    logs \cap {"dial", "write", "uri", "connect"} # {}

\* C7: for every probe at most one sink call is made and at most one dial or
\* request is issued, also when the send failed; the payload in the sink is
\* the one of the probe in hand, and outside the sink no payload is kept once
\* the block of the direction is left.
C7_SentAtMostOnce ==
    /\ sendCount <= 1
    /\ dialCount <= sendCount
    /\ pc \in SinkLocations =>
          /\ sendCount = 1
          /\ msg = BuildMsg(config, endpoint, dir, result.bps, msg.time)
    /\ pc \in {"sweep", "outer", "inner", "probe", "sleep"} =>
          /\ msg = NoMsg
          /\ sendCount = 0
          /\ dialCount = 0

C7_Witness ==
    /\ pc = "next"
    /\ C7_FailedSend
    /\ sendCount = 1
    /\ dialCount = 1

\* C8: the loop has no terminal state. A sleep starts only when every
\* endpoint and direction of the sweep has been processed, it lasts the
\* configured interval (when that is a number of seconds) and is followed by
\* a new sweep, a sweep sleeps once, and unless a sink call fails to return
\* the loop sleeps and sweeps forever.
C8_LoopForever ==
    /\ [](pc = "sleep" => AllProbed /\ vi = Len(config.PerfServers) + 1)
    /\ [][pc = "sleep" =>
            /\ pc' = "sweep"
            /\ IsInteger(config.testInterval) =>
                  slept' = ParseInteger(config.testInterval)]_vars
    /\ [][pc' = "sleep" => pc \in {"outer", "sleep"}]_vars
    /\ [][pc = "sweep" => pc' = "outer" /\ vi' = 1 /\ probes' = <<>>]_vars
    /\ (<>(pc = "panicked") \/ ([]<>(pc = "sleep") /\ []<>(pc = "sweep")))

C8_Witness ==
    /\ pc = "sweep"
    /\ slept = 300
    /\ Len(probes) >= 2

\* C9: sendGraphite holds at most one connection, opened by its own dial;
\* the connection is open only between the dial and the deferred close, so
\* none is open once sendGraphite has returned, whether the write succeeded
\* or failed; a failed dial is followed by no write; one connection carries
\* one payload.
C9_ConnectionLifecycle ==
    /\ openConns = (IF pc \in {"gWrite", "gClose"} THEN 1 ELSE 0)
    /\ connWrites <= 1
    /\ pc = "gWrite" => connWrites = 0
    /\ "dial" \in logs => (connWrites = 0 /\ pc = "next")
    /\ pc \in {"gDial", "gWrite", "gClose"} => dialCount <= 1

C9_Witness ==
    /\ pc = "next"
    /\ "write" \in logs
    /\ connWrites = 1
    /\ openConns = 0

\* C10: when sendInflux returns after a response, it returns no error if the
\* status is 200 and the error "unexpected status code: <code>" otherwise.
C10_SuccessIs200 ==
    pc = "iClose" =>
        ret = (IF resp.status = 200 THEN NilError
               ELSE [kind |-> "unexpected status code: ",
                     code |-> resp.status])

\* C11: once sendInflux has issued its request, the body of the response is
\* never closed before it has been read, and when the call is over (it has
\* returned, or it has ended in a panic) the body has been read and closed.
C11_BodyDrainedThenClosed ==
    /\ resp.closed => resp.read
    /\ (pc \in {"next", "panicked"} /\ msg.sink = "influx" /\ dialCount = 1) =>
          (resp.read /\ resp.closed)

\* C12: one sink per run: sendGraphite runs only when tsdbType is not
\* "influx" and sendInflux only when it is "influx", the payload is built for
\* that sink, and the selection never changes during the run.
C12_OneSinkPerRun ==
    /\ [](pc \in {"gDial", "gWrite", "gClose"} =>
            (config.tsdbType # "influx" /\ msg.sink = "graphite"))
    /\ [](pc \in {"iNewRequest", "iDo", "iReadAll", "iStatus", "iClose"} =>
            (config.tsdbType = "influx" /\ msg.sink = "influx"))
    /\ [](msg.sink = "graphite" => (resp = NoResp /\ ret = NoReturn))
    /\ [](msg.sink = "influx" => (openConns = 0 /\ connWrites = 0))
    /\ [][config'.tsdbType = config.tsdbType]_vars

C12_Witness ==
    /\ pc = "gClose"
    /\ config.tsdbType = ""
    /\ dir = "upload"

\* number of probes of address a in direction d among ps
RECURSIVE CountProbes(_, _, _)
CountProbes(ps, a, d) ==
    IF ps = <<>> THEN 0
    ELSE (IF Head(ps) = << a, d >> THEN 1 ELSE 0) + CountProbes(Tail(ps), a, d)

\* number of entries of the configured list with address a
RECURSIVE CountEntries(_, _)
CountEntries(servers, a) ==
    IF servers = <<>> THEN 0
    ELSE Cardinality({ i \in 1..Len(Head(servers)) : Head(servers)[i][1] = a })
         + CountEntries(Tail(servers), a)

\* C13: when a sweep is over, iperfRun has made for each configured endpoint
\* one probe without -R and one probe with -R, and netperfRun one probe
\* without -R; a probe of the download block carries no -R and one of the
\* upload block carries it; netperfRun never probes or sends for upload.
C13_DirectionsPerTool ==
    /\ pc = "sleep" =>
          \A i \in 1..Len(config.PerfServers) :
             \A j \in 1..Len(config.PerfServers[i]) :
                LET a == config.PerfServers[i][j][1] IN
                /\ CountProbes(probes, a, "download")
                      = CountEntries(config.PerfServers, a)
                /\ CountProbes(probes, a, "upload")
                      = (IF config.netperf THEN 0
                         ELSE CountEntries(config.PerfServers, a))
    /\ cmd # NoCmd =>
          /\ cmd.reverse = (dir = "upload")
          /\ cmd.address = endpoint.address
          /\ cmd.tool = (IF config.netperf THEN "netperf" ELSE "iperf")
    /\ config.netperf =>
          /\ dir = "download"
          /\ msg.prefix # config.uploadPrefix
          /\ \A k \in 1..Len(probes) : probes[k][2] = "download"

C13_Witness ==
    /\ pc = "sleep"
    /\ config.netperf
    /\ Len(probes) >= 2

\* the pairs of --perf-servers
FlagPairs == Split(config.perfServers, ",")

\* first and second ":"-separated token of a pair, the second empty when the
\* pair has one token
FirstToken(pair) ==
    IF \E i \in 1..Len(pair) : pair[i] = ":"
    THEN SubSeq(pair, 1, (CHOOSE i \in 1..Len(pair) :
                            pair[i] = ":" /\ \A j \in 1..(i - 1) : pair[j] # ":") - 1)
    ELSE pair

AfterFirstColon(pair) ==
    IF \E i \in 1..Len(pair) : pair[i] = ":"
    THEN SubSeq(pair, (CHOOSE i \in 1..Len(pair) :
                         pair[i] = ":" /\ \A j \in 1..(i - 1) : pair[j] # ":") + 1,
                Len(pair))
    ELSE <<>>

SecondToken(pair) == FirstToken(AfterFirstColon(pair))

TokenCount(pair) ==
    Cardinality({ i \in 1..Len(pair) : pair[i] = ":" }) + 1

\* the label an entry of the list stands for
LabelOf(entry) == IF entry[2] = <<>> THEN entry[1] ELSE entry[2]

C15_MalformedRejected ==
    pc = "check" =>
        /\ TokenCount(FlagPairs[vi]) <= 2
        /\ FirstToken(FlagPairs[vi]) # <<>>

\* C16: every influx payload carries the field iperfResultsBps when built
\* by iperfRun, in both directions, and iperfDownloadResultsBps when built by
\* netperfRun; its testType is the download prefix for a download and the
\* upload prefix for an upload, its iperfDestination the label of the
\* endpoint and its iperfSource the local hostname.
C16_InfluxFields ==
    msg.sink = "influx" =>
        /\ msg.field = (IF config.netperf THEN "iperfDownloadResultsBps"
                        ELSE "iperfResultsBps")
        /\ msg.prefix = (IF dir = "download" THEN config.downloadPrefix
                         ELSE config.uploadPrefix)
        /\ msg.label = endpoint.name
        /\ msg.source = config.Hostname
        /\ msg.measurement = config.MeasurementName
        /\ msg.layout = "%s,testType=%s,iperfDestination=%s,iperfSource=%s %s=%d"

C16_Witness ==
    /\ pc = "iDo"
    /\ config.netperf
    /\ msg.field = "iperfDownloadResultsBps"
    /\ msg.prefix = "bandwidth.download"

\* C17: every payload given to sendGraphite is the line
\* "<prefix>.<label> <value> <time>\n" whose prefix is the download prefix
\* for a download and the upload prefix for an upload, whose label is the
\* label of the endpoint probed last, whose value is the converted result
\* and whose time is a reading of the clock.
C17_GraphitePayload ==
    msg.sink = "graphite" =>
        /\ msg.layout = "%s.%s %d %d\n"
        /\ msg.prefix = (IF dir = "download" THEN config.downloadPrefix
                         ELSE config.uploadPrefix)
        /\ msg.label = endpoint.name
        /\ probes[Len(probes)] = << endpoint.address, dir >>
        /\ msg.value = (IF result.bps.neg THEN << "-" >> ELSE <<>>)
                          \o result.bps.digits
        /\ msg.time \in Times

C17_Witness ==
    /\ pc = "gWrite"
    /\ dir = "upload"
    /\ msg.prefix = "bandwidth.upload"
    /\ msg.label = <<"w">>

\* the integer a decimal text denotes once its last three digits are cut
ThousandsOf(text) ==
    IF Len(Unsigned(text)) <= 3 THEN 0
    ELSE ParseInteger(SubSeq(text, 1, Len(text) - 3))

\* the last three digits of a decimal text
UnitsOf(text) ==
    IF Len(Unsigned(text)) <= 3 THEN ParseInteger(Unsigned(text))
    ELSE ParseInteger(SubSeq(text, Len(text) - 2, Len(text)))

C19_ConfigurationReadOnly ==
    [][/\ config' = config
       /\ cmd' # NoCmd =>
             /\ cmd'.length = config.testLength
             /\ cmd'.port = config.perfServerPort
       /\ (pc = "sleep" /\ IsInteger(config.testInterval)) =>
             slept' = ParseInteger(config.testInterval)]_vars

\* a sweep has probed, sent and slept, and the next one is about to begin
C19_Witness ==
    /\ pc = "sweep"
    /\ slept >= 0
    /\ \E i \in 1..Len(config.PerfServers) :
          \E j \in 1..Len(config.PerfServers[i]) :
             config.PerfServers[i][j][2] = <<>>

\* C20: a sink is called only for the probe that has just returned: the call
\* starts from the check of a result whose command was run for the current
\* endpoint and direction and is the last probe of the sweep, it is the only
\* call for that probe and carries that endpoint's label; a probe is invoked
\* only from the probe step, never while a sink call is under way; so the
\* sends of a sweep follow the order of its probes and are no more than they.
C20_SendFollowsItsProbe ==
    /\ [][sendCount' > sendCount =>
             /\ pc = "check"
             /\ sendCount = 0
             /\ cmd = Command(config, endpoint, dir)
             /\ probes # <<>>
             /\ probes[Len(probes)] = << endpoint.address, dir >>
             /\ msg'.label = endpoint.name
             /\ probes' = probes]_vars
    /\ [][(probes' # probes /\ probes' # <<>>) =>
             /\ pc = "probe"
             /\ sendCount = 0
             /\ probes' = Append(probes, << endpoint.address, dir >>)]_vars
    /\ [](pc \in SinkLocations =>
             /\ sendCount = 1
             /\ probes # <<>>
             /\ probes[Len(probes)] = << endpoint.address, dir >>
             /\ cmd = Command(config, endpoint, dir))
    /\ [](sendCount <= 1)

\* the send of the second probe of a sweep
C20_Witness ==
    /\ pc \in SinkLocations
    /\ Len(probes) = 2
    /\ dir = "upload"
    /\ sendCount = 1

=============================================================================
